---- MODULE Spec2Model ----
(***************************************************************************)
(* The update_language_packs management command of ka-lite-central:        *)
(* schema check, optional subtitle refresh, download of the CrowdIn        *)
(* archive, metadata merge with the crowdin_version policy, compilation    *)
(* and packaging.  The file system (locale tree, per-locale metadata       *)
(* files, scratch directory, availability index) persists from one run of  *)
(* the command to the next.                                                *)
(*                                                                         *)
(* Spec     - the whole command, run again and again, on a locale tree     *)
(*            that starts without metadata files.                          *)
(* SpecMeta - generate_metadata called run after run on metadata files     *)
(*            left by earlier releases, with every shape of prior record.  *)
(***************************************************************************)
EXTENDS Integers, Sequences, FiniteSets, TLC

\* ------------------------------------------------------------- bounds
MaxVersion == 2          \* software versions are 1..MaxVersion
MaxApproved == 1         \* approved / total_translated counts are 0..MaxApproved
MaxCrowdinVersion == 3   \* generate_metadata starts only while every crowdin_version is below this

\* ------------------------------------------------------------- values
None == -1               \* what dict.get returns for an absent key
TypeError == -2          \* what None + 1 raises

Versions == 1..MaxVersion
Counts == 0..MaxApproved
TotalPhrases == MaxApproved

\* Python truthiness of an integer or None
Truthy(x) == x # None /\ x # 0

\* dict.get(key)
Get(d, k) == IF k \in DOMAIN d THEN d[k] ELSE None

Range(s) == {s[i] : i \in 1..Len(s)}

\* ------------------------------------------------------------- locales
LocaleCodes == {"es", "pt_BR"}        \* directory names under LOCALE_ROOT
CrowdinCodes == {"es", "pt-BR"}       \* codes of the remote service

convert_language_code_format(lang_code, for_crowdin) ==
    IF lang_code \in {"pt_BR", "pt-BR"}
    THEN (IF for_crowdin THEN "pt-BR" ELSE "pt_BR")
    ELSE lang_code

get_language_name(lang) ==
    IF lang = "es" THEN "Spanish" ELSE "Portuguese, Brazilian"

\* subtitle_counts.json: display name -> {count}
subtitle_counts == ("Spanish" :> [count |-> 2])

\* three-way comparison of two software versions
version_diff(v1, v2) == v1 - v2

\* ------------------------------------------------------------- options
Absent == "<absent>"                       \* -d not given: the default, None
DaysValues == {Absent, "", "30", "soon"}
DaysTruthy(d) == d \notin {Absent, ""}     \* if options["days"]
DaysNumeric(d) == d = "30"                 \* int(days) succeeds

\* ------------------------------------------------------------- records
NoFile == [nofile |-> TRUE]               \* no readable <lang>_metadata.json
NoneDict == [none |-> TRUE]               \* crowdin_meta is None
Empty == [k \in {} |-> None]
Opt(k, v) == IF v = None THEN Empty ELSE (k :> v)

UpdatedSet == {"percent_translated", "phrases", "approved_translations",
               "software_version", "crowdin_version", "subtitle_count"}

\* metadata files left by earlier releases of the pipeline
LegacyRecords(lang) ==
    { [code |-> convert_language_code_format(lang, TRUE), name |-> get_language_name(lang)]
        @@ Opt("total_translated", tt) @@ Opt("crowdin_version", cv)
        @@ ("software_version" :> sv) :
        tt \in Counts \cup {None}, cv \in (1..(MaxCrowdinVersion - 1)) \cup {None},
        sv \in Versions }

RemoteEntry(c, a) ==
    [code |-> c, name |-> get_language_name(convert_language_code_format(c, FALSE)),
     phrases |-> TotalPhrases, approved |-> a,
     approved_progress |-> (a * 100) \div TotalPhrases]

\* the status responses of the remote service: one entry per listed code
StatusResponses ==
    UNION { { {RemoteEntry(c, f[c]) : c \in cs} : f \in [cs -> Counts] }
            : cs \in SUBSET CrowdinCodes }

VARIABLES
    pc,                 \* position of the command
    days,               \* options["days"]
    VERSION,            \* version.VERSION of the running software
    srt_exists,         \* STATIC_ROOT/srt exists
    tmp_exists,         \* LOCALE_ROOT/tmp exists
    locale_dirs,        \* directories under LOCALE_ROOT
    meta_file,          \* <lang>_metadata.json per locale
    index_file,         \* language_pack_availability.json: the locales it lists
    archive,            \* locale codes in the downloaded archive
    crowdin_meta_dict,  \* the status response generate_metadata fetched in this run
    master_file,        \* the list generate_metadata built in this run
    stages,             \* the stages this run has started, in order
    requests,           \* endpoints requested by this run
    wrote,              \* this run has written to the file system
    logged,             \* functions that logged an error in this run
    failed,             \* the function whose exception ended the run
    packaged            \* archives written by this run

vars == <<pc, days, VERSION, srt_exists, tmp_exists, locale_dirs, meta_file, index_file,
          archive, crowdin_meta_dict, master_file, stages, requests, wrote, logged,
          failed, packaged>>

fs == <<tmp_exists, locale_dirs, meta_file, index_file>>
opts == <<days, VERSION, srt_exists>>
meta == <<crowdin_meta_dict, master_file>>

InitRun ==
    /\ pc = "idle"
    /\ days = Absent
    /\ VERSION = 1
    /\ srt_exists = FALSE
    /\ tmp_exists = FALSE
    /\ locale_dirs \in {{"es"}, {"es", "pt_BR"}}
    /\ index_file = <<>>
    /\ archive = {}
    /\ crowdin_meta_dict = {}
    /\ master_file = <<>>
    /\ stages = <<>>
    /\ requests = {}
    /\ wrote = FALSE
    /\ logged = {}
    /\ failed = ""
    /\ packaged = {}

\* a locale tree without metadata files
Init ==
    /\ InitRun
    /\ meta_file = [l \in LocaleCodes |-> NoFile]

\* a locale tree whose es directory holds any record of an earlier release
InitMeta ==
    /\ InitRun
    /\ meta_file \in [LocaleCodes -> {NoFile} \cup LegacyRecords("es")]
    /\ meta_file["pt_BR"] = NoFile

crowdin_version_of(lang) == Get(meta_file[lang], "crowdin_version")

\* the command is run: python manage.py update_language_packs [-d days]
\* (between runs the software may have been upgraded and the srt directory moved)
Invoke ==
    /\ pc \in {"idle", "done", "failed"}
    /\ \E d \in DaysValues, v \in Versions, s \in BOOLEAN :
         /\ days' = d
         /\ VERSION' = v
         /\ srt_exists' = s
    /\ pc' = "handle"
    /\ archive' = {}
    /\ crowdin_meta_dict' = {}
    /\ master_file' = <<>>
    /\ stages' = <<>>
    /\ requests' = {}
    /\ wrote' = FALSE
    /\ logged' = {}
    /\ failed' = ""
    /\ packaged' = {}
    /\ UNCHANGED fs

Raise(f) == pc' = "failed" /\ failed' = f

\* a schema check that never raises
raise_if_outdated_srt_schema_never == FALSE

\* raise_if_outdated_srt_schema raises CommandError
raise_if_outdated_srt_schema == srt_exists

\* a handle that refreshes the subtitles whatever the days option is
HandleAlwaysRefreshes ==
    /\ pc = "handle"
    /\ stages' = Append(stages, "schema_check")
    /\ IF raise_if_outdated_srt_schema
       THEN Raise("raise_if_outdated_srt_schema")
       ELSE pc' = "update_srts" /\ UNCHANGED failed
    /\ UNCHANGED <<opts, fs, archive, meta, requests, wrote, logged, packaged>>

\* Command.handle up to the first stage
Handle ==
    /\ pc = "handle"
    /\ stages' = Append(stages, "schema_check")
    /\ IF raise_if_outdated_srt_schema
       THEN Raise("raise_if_outdated_srt_schema")
       ELSE /\ pc' = IF DaysTruthy(days) THEN "update_srts" ELSE "build_translations"
            /\ UNCHANGED failed
    /\ UNCHANGED <<opts, fs, archive, meta, requests, wrote, logged, packaged>>

\* update_srts(days)
UpdateSrts ==
    /\ pc = "update_srts"
    /\ stages' = Append(stages, "update_srts")
    /\ IF DaysNumeric(days)
       THEN pc' = "build_translations" /\ wrote' = TRUE /\ UNCHANGED failed
       ELSE Raise("update_srts") /\ UNCHANGED wrote
    /\ UNCHANGED <<opts, fs, archive, meta, requests, logged, packaged>>

\* a build_translations that lets the error status propagate
BuildTranslationsRaises ==
    /\ pc = "build_translations"
    /\ stages' = Append(stages, "download_translations")
    /\ requests' = requests \cup {"export"}
    /\ \E status \in {"ok", "error"} :
         IF status = "error"
         THEN Raise("build_translations")
         ELSE pc' = "download" /\ UNCHANGED failed
    /\ UNCHANGED <<opts, fs, archive, meta, wrote, logged, packaged>>

\* build_translations, called first by download_latest_translations:
\* request an export; an error status is logged
BuildTranslations ==
    /\ pc = "build_translations"
    /\ stages' = Append(stages, "download_translations")
    /\ requests' = requests \cup {"export"}
    /\ \E status \in {"ok", "error"} :
         logged' = IF status = "error" THEN logged \cup {"build_translations"} ELSE logged
    /\ pc' = "download"
    /\ UNCHANGED <<opts, fs, archive, meta, wrote, failed, packaged>>

\* download_latest_translations, lines 95-106: request the archive, log an
\* error status, open the body as a zip archive (BadZipfile if it is none)
Download ==
    /\ pc = "download"
    /\ requests' = requests \cup {"download"}
    /\ \E status \in {"ok", "error"}, body \in {"zip", "other"} :
         /\ logged' = IF status = "error"
                      THEN logged \cup {"download_latest_translations"} ELSE logged
         /\ IF body = "zip"
            THEN /\ \E langs \in SUBSET CrowdinCodes : archive' = langs
                 /\ pc' = "extractall"
                 /\ UNCHANGED failed
            ELSE /\ Raise("download_latest_translations")
                 /\ UNCHANGED archive
    /\ UNCHANGED <<opts, fs, meta, stages, wrote, packaged>>

\* z.extractall(tmp_dir_path): may fail partway (IOError)
ExtractAll ==
    /\ pc = "extractall"
    /\ tmp_exists' = TRUE
    /\ wrote' = TRUE
    /\ \E ok \in BOOLEAN :
         IF ok THEN pc' = "extract_new_po" /\ UNCHANGED failed
               ELSE Raise("download_latest_translations")
    /\ UNCHANGED <<opts, locale_dirs, meta_file, index_file, archive, meta, stages,
                   requests, logged, packaged>>

\* extract_new_po: ensure the locale directories and copy the po files;
\* may fail after any number of locales (IOError)
ExtractNewPo ==
    /\ pc = "extract_new_po"
    /\ \E copied \in SUBSET archive :
         /\ locale_dirs' = locale_dirs \cup
                             {convert_language_code_format(l, FALSE) : l \in copied}
         /\ IF copied = archive
            THEN pc' = "cleanup" /\ UNCHANGED failed
            ELSE Raise("extract_new_po")
    /\ UNCHANGED <<opts, tmp_exists, meta_file, index_file, archive, meta, stages,
                   requests, wrote, logged, packaged>>

\* lines 113-115: remove the scratch directory; download_latest_translations returns
Cleanup ==
    /\ pc = "cleanup"
    /\ tmp_exists' = FALSE
    /\ archive' = {}
    /\ pc' = "generate_metadata"
    /\ UNCHANGED <<opts, locale_dirs, meta_file, index_file, meta, stages, requests,
                   wrote, logged, failed, packaged>>

\* line 158: the remote entry of a locale, or None
crowdin_meta_for(response, lang) ==
    LET found == {m \in response : m.code = convert_language_code_format(lang, TRUE)}
    IN  IF found = {} THEN NoneDict ELSE CHOOSE m \in found : TRUE

\* lines 159-165: the prior record, or a minimal one from the remote entry
load_local_meta(file, crowdin_meta) ==
    IF file # NoFile
    THEN file
    ELSE [code |-> crowdin_meta.code, name |-> crowdin_meta.name]

\* lines 167-172
srt_count_of(lang) ==
    IF get_language_name(lang) \in DOMAIN subtitle_counts
    THEN subtitle_counts[get_language_name(lang)].count
    ELSE 0

\* a policy that starts over at 1 when the translation count changed
increment_crowdin_version_restarts(local_meta, crowdin_meta, version) ==
    LET total_translated == Get(local_meta, "total_translated")
        crowdin_version == Get(local_meta, "crowdin_version")
    IN  IF \/ ~Truthy(total_translated)
           \/ version_diff(Get(local_meta, "software_version"), version) < 0
        THEN 1
        ELSE IF total_translated = crowdin_meta.approved
        THEN (IF Truthy(crowdin_version) THEN crowdin_version ELSE 1)
        ELSE 1

\* lines 211-221
increment_crowdin_version(local_meta, crowdin_meta, version) ==
    LET total_translated == Get(local_meta, "total_translated")
        crowdin_version == Get(local_meta, "crowdin_version")
    IN  IF \/ ~Truthy(total_translated)
           \/ version_diff(Get(local_meta, "software_version"), version) < 0
        THEN 1
        ELSE IF total_translated = crowdin_meta.approved
        THEN (IF Truthy(crowdin_version) THEN crowdin_version ELSE 1)
        ELSE IF crowdin_version = None THEN TypeError ELSE crowdin_version + 1

\* lines 175-182
updated_metadata(local_meta, crowdin_meta, lang, version) ==
    [percent_translated |-> crowdin_meta.approved_progress,
     phrases |-> crowdin_meta.phrases,
     approved_translations |-> crowdin_meta.approved,
     software_version |-> version,
     crowdin_version |-> increment_crowdin_version(local_meta, crowdin_meta, version),
     subtitle_count |-> srt_count_of(lang)]

\* a merge that replaces the prior record by the updated fields
dict_replace(local_meta, updated) == updated

\* line 184: local_meta.update(updated_metadata)
dict_update(local_meta, updated) == updated @@ local_meta

\* lines 158-184 for one locale directory: the record to persist
merged_record(file, response, lang, version) ==
    LET crowdin_meta == crowdin_meta_for(response, lang)
        local_meta == load_local_meta(file, crowdin_meta)
    IN  dict_update(local_meta, updated_metadata(local_meta, crowdin_meta, lang, version))

\* the loop body raises: crowdin_meta is None (AttributeError), or None + 1
merge_raises(file, response, lang, version) ==
    LET crowdin_meta == crowdin_meta_for(response, lang)
    IN  \/ crowdin_meta = NoneDict
        \/ increment_crowdin_version(load_local_meta(file, crowdin_meta),
                                     crowdin_meta, version) = TypeError

\* the orders in which os.listdir may return a set of names
RECURSIVE Orders(_)
Orders(S) ==
    IF S = {} THEN {<<>>}
    ELSE UNION { { <<x>> \o o : o \in Orders(S \ {x}) } : x \in S }

\* lines 154-191: the loop over os.listdir(LOCALE_ROOT) from entry i on (names
\* holds the directories in the order listed: lines 156-157 skip every other
\* entry); the files and master list so far, and whether an iteration raised
RECURSIVE merge_loop(_, _, _, _, _, _)
merge_loop(names, i, files, master, response, version) ==
    IF i > Len(names)
    THEN [files |-> files, master |-> master, raised |-> FALSE]
    ELSE LET lang == names[i] IN
         IF merge_raises(files[lang], response, lang, version)
         THEN [files |-> files, master |-> master, raised |-> TRUE]
         ELSE merge_loop(names, i + 1,
                         [files EXCEPT ![lang] =
                              merged_record(files[lang], response, lang, version)],
                         Append(master, lang), response, version)

\* generate_metadata: fetch the remote status, merge every locale directory,
\* save the availability index
GenerateMetadata ==
    /\ pc = "generate_metadata"
    /\ stages' = Append(stages, "merge_metadata")
    /\ requests' = requests \cup {"status"}
    /\ \/ /\ Raise("get_crowdin_meta")
          /\ UNCHANGED <<meta, fs, wrote>>
       \/ \E response \in StatusResponses, names \in Orders(locale_dirs) :
            LET out == merge_loop(names, 1, meta_file, <<>>, response, VERSION) IN
            /\ crowdin_meta_dict' = response
            /\ master_file' = out.master
            /\ meta_file' = out.files
            /\ wrote' = (wrote \/ out.master # <<>> \/ ~out.raised)
            /\ IF out.raised
               THEN Raise("generate_metadata") /\ UNCHANGED index_file
               ELSE /\ index_file' = out.master
                    /\ pc' = "compile"
                    /\ UNCHANGED failed
            /\ UNCHANGED <<tmp_exists, locale_dirs>>
    /\ UNCHANGED <<opts, archive, logged, packaged>>

\* compile_all_po_files
Compile ==
    /\ pc = "compile"
    /\ stages' = Append(stages, "compile_catalogs")
    /\ wrote' = TRUE
    /\ pc' = "zip"
    /\ UNCHANGED <<opts, fs, archive, meta, requests, logged, failed, packaged>>

\* zip_language_packs
ZipLanguagePacks ==
    /\ pc = "zip"
    /\ stages' = Append(stages, "package")
    /\ packaged' = {<<VERSION, convert_language_code_format(l, FALSE)>> : l \in locale_dirs}
    /\ wrote' = TRUE
    /\ pc' = "done"
    /\ UNCHANGED <<opts, fs, archive, meta, requests, logged, failed>>

Next ==
    \/ Invoke
    \/ Handle
    \/ UpdateSrts
    \/ BuildTranslations
    \/ Download
    \/ ExtractAll
    \/ ExtractNewPo
    \/ Cleanup
    \/ GenerateMetadata
    \/ Compile
    \/ ZipLanguagePacks

Spec == Init /\ [][Next]_vars

\* a further run of the command reaches generate_metadata: handle, lines 49-54,
\* and update_language_packs, line 70, have passed without raising; the
\* software may have been upgraded or downgraded since the last run and the
\* archive may have brought new locale directories
ReachGenerateMetadata ==
    /\ pc \in {"idle", "compile", "failed"}
    /\ \A l \in LocaleCodes : crowdin_version_of(l) < MaxCrowdinVersion
    /\ \E v \in Versions : VERSION' = v
    /\ \E new \in SUBSET LocaleCodes : locale_dirs' = locale_dirs \cup new
    /\ pc' = "generate_metadata"
    /\ crowdin_meta_dict' = {}
    /\ master_file' = <<>>
    /\ stages' = <<"schema_check", "download_translations">>
    /\ requests' = {"export", "download"}
    /\ wrote' = TRUE
    /\ failed' = ""
    /\ UNCHANGED <<days, srt_exists, tmp_exists, meta_file, index_file, archive, logged,
                   packaged>>

NextMeta ==
    \/ ReachGenerateMetadata
    \/ GenerateMetadata

SpecMeta == InitMeta /\ [][NextMeta]_vars

\* ------------------------------------------------------------- properties

\* generate_metadata has just persisted the record of locale l
Persisted(l) == pc = "generate_metadata" /\ l \in Range(master_file')

\* the remote entry generate_metadata has just used for locale l
EntryOf(l) == crowdin_meta_for(crowdin_meta_dict', l)

\* the three-case policy as the specification words it (no value, None, where
\* it asks for the successor of a crowdin_version that is not recorded)
NextVersion(previous, current, version) ==
    IF \/ previous = NoFile
       \/ "total_translated" \notin DOMAIN previous
       \/ previous.software_version < version
    THEN 1
    ELSE IF previous.total_translated = current.approved
    THEN (IF "crowdin_version" \in DOMAIN previous THEN previous.crowdin_version ELSE 1)
    ELSE IF "crowdin_version" \in DOMAIN previous THEN previous.crowdin_version + 1
    ELSE None

\* C1: the crowdin_version generate_metadata persists for a locale is the
\* three-case policy applied to the prior record and the remote entry: 1 when
\* the prior record has no total_translated or its software_version is older
\* than the current one, else the prior crowdin_version (or 1) when
\* total_translated equals approved, else the prior crowdin_version + 1.
C1_ThreeCasePolicy ==
    [][\A l \in LocaleCodes :
         (Persisted(l) /\ NextVersion(meta_file[l], EntryOf(l), VERSION) # None) =>
           meta_file'[l].crowdin_version = NextVersion(meta_file[l], EntryOf(l), VERSION)]_vars

\* C2 as claimed: from one run to the next a locale's crowdin_version does not
\* decrease, unless the software version has gone back below the recorded
\* one, and then it is 1.
C2_ResetOnRegress ==
    [][\A l \in LocaleCodes :
         (Persisted(l) /\ crowdin_version_of(l) # None) =>
           IF VERSION < meta_file[l].software_version
           THEN meta_file'[l].crowdin_version = 1
           ELSE meta_file'[l].crowdin_version >= meta_file[l].crowdin_version]_vars

\* the prior record makes increment_crowdin_version start over
StartsOver(previous, version) ==
    \/ Get(previous, "total_translated") \in {None, 0}
    \/ previous.software_version < version

\* C2: from one run to the next a locale's crowdin_version does not decrease,
\* unless the prior record has no (or a zero) total_translated or its
\* software_version is older than the current software version, and then it
\* is 1.
C2_MonotoneUnlessStartsOver ==
    [][\A l \in LocaleCodes :
         (Persisted(l) /\ crowdin_version_of(l) # None) =>
           IF StartsOver(meta_file[l], VERSION)
           THEN meta_file'[l].crowdin_version = 1
           ELSE meta_file'[l].crowdin_version >= meta_file[l].crowdin_version]_vars

\* a run has advanced a recorded crowdin_version to the cap
C2_Witness ==
    /\ pc = "compile"
    /\ "es" \in Range(master_file)
    /\ "total_translated" \in DOMAIN meta_file["es"]
    /\ meta_file["es"].crowdin_version = MaxCrowdinVersion

\* C3: when the prior record was persisted by a run with the same approved
\* count and the same software version as this run, this run persists the
\* same crowdin_version.
C3_IdempotentWithoutProgress ==
    [][\A l \in LocaleCodes :
         (/\ Persisted(l)
          /\ "approved_translations" \in DOMAIN meta_file[l]
          /\ meta_file[l].approved_translations = EntryOf(l).approved
          /\ meta_file[l].software_version = VERSION) =>
           meta_file'[l].crowdin_version = meta_file[l].crowdin_version]_vars

\* C4: once the archive download has answered with an error status the run is
\* aborted in download_latest_translations: nothing is extracted, copied,
\* merged, compiled or packaged.
C4_DownloadErrorAborts ==
    "download_latest_translations" \in logged =>
        /\ pc = "failed"
        /\ failed = "download_latest_translations"
        /\ archive = {}
        /\ crowdin_meta_dict = {}
        /\ packaged = {}

\* download_latest_translations has exited, normally or by an exception
DownloadExited ==
    \/ pc \in {"generate_metadata", "compile", "zip", "done"}
    \/ /\ pc = "failed"
       /\ failed \in {"download_latest_translations", "extract_new_po",
                      "get_crowdin_meta", "generate_metadata"}

\* C5: whenever download_latest_translations has exited, the scratch directory
\* does not exist.
C5_ScratchRemoved == DownloadExited => ~tmp_exists

\* the stages of a run without failure, with or without the subtitle refresh
ExpectedStages(refresh) ==
    <<"schema_check">> \o (IF refresh THEN <<"update_srts">> ELSE <<>>)
    \o <<"download_translations", "merge_metadata", "compile_catalogs", "package">>

IsPrefix(s, t) == Len(s) <= Len(t) /\ \A i \in 1..Len(s) : s[i] = t[i]

\* C6 as claimed: a run that ends without failure has started each stage once,
\* in the fixed order, the subtitle refresh exactly when the days flag was
\* supplied.
C6_RefreshIffSupplied ==
    /\ IsPrefix(stages, ExpectedStages(days # Absent))
    /\ pc = "done" => stages = ExpectedStages(days # Absent)

\* C6: a run starts its stages in the fixed order, none twice, and one that
\* ends without failure has started each once; the subtitle refresh is among
\* them exactly when the days option was supplied with a non-empty value.
C6_FixedOrder ==
    /\ IsPrefix(stages, ExpectedStages(days \notin {Absent, ""}))
    /\ pc = "done" => stages = ExpectedStages(days \notin {Absent, ""})

\* a run with the days option has ended without failure
C6_Witness == pc = "done" /\ days = "30" /\ Len(stages) = 6

\* C7: while the legacy srt directory exists a run gets no further than the
\* schema check: it is at the check or aborted by it, and has made no request
\* and no write and started no other stage.
C7_SchemaCheckFirst ==
    srt_exists =>
        /\ pc \in {"handle", "failed"}
        /\ pc = "failed" => failed = "raise_if_outdated_srt_schema"
        /\ IsPrefix(stages, <<"schema_check">>)
        /\ requests = {}
        /\ ~wrote
        /\ packaged = {}

\* a run has been aborted by the schema check
C7_Witness == srt_exists /\ pc = "failed" /\ stages = <<"schema_check">>

\* C8: every field of a readable prior record outside the updated set is in
\* the record generate_metadata persists, with the same value.
C8_UnrelatedFieldsKept ==
    [][\A l \in LocaleCodes :
         (Persisted(l) /\ meta_file[l] # NoFile) =>
           \A k \in DOMAIN meta_file[l] \ UpdatedSet :
               k \in DOMAIN meta_file'[l] /\ meta_file'[l][k] = meta_file[l][k]]_vars

\* a record with a field outside the updated set has been merged
C8_Witness ==
    /\ pc = "compile"
    /\ "es" \in Range(master_file)
    /\ "total_translated" \in DOMAIN meta_file["es"]
    /\ "percent_translated" \in DOMAIN meta_file["es"]

C10_UnmatchedLocaleTolerated ==
    ("status" \in requests /\ failed # "get_crowdin_meta") =>
        /\ failed # "generate_metadata"
        /\ \A l \in locale_dirs :
             crowdin_meta_for(crowdin_meta_dict, l) # NoneDict => l \in Range(master_file)
        /\ index_file = master_file

====
